---------------------------- MODULE Spec2Model ----------------------------
(***************************************************************************)
(* Model of the two fallback chains of the event application backend:      *)
(*   - RobustEmailService.sendEmail and the adapters it walks              *)
(*   - QuotationRequestService.uploadBase64Images and uploadWithTimeout    *)
(* A step of the model is what JavaScript runs between two awaits: the     *)
(* resumption of a suspended call runs to the next await or to the return. *)
(***************************************************************************)
EXTENDS Integers, Sequences, FiniteSets, TLC

VARIABLES
  emPc,        \* sendEmail: "idle" | "await" | "done"
  emCfg,       \* process.env / ConfigService values seen by this call
  emI,         \* loop index i of sendEmail (1-based)
  emAttempts,  \* names of the strategies invoked so far, in invocation order
  emOutcomes,  \* what each resolved strategy did, in resolution order
  emEnv,       \* what the outside world does to the strategy in flight
  emResult,    \* "none" | "true" | "false" | "rejected"
  upPc,        \* uploadBase64Images: "idle" | "race" | "awaitS3" | "delay" | "done"
  upIn,        \* the call's inputs: images, NODE_ENV, aws config, log failures
  upI,         \* loop index i (1-based)
  upB,         \* index into supabaseBuckets of the attempt in flight
  upImageUrl,  \* imageUrl of the image being processed
  upSuccess,   \* uploadSuccess of the image being processed
  upUrls,      \* uploadedUrls
  upAttempts,  \* provider attempts started so far: <<image, provider>>
  upCall,      \* how the provider call being awaited will end: [out, lat]
  upInFlight,  \* provider calls dispatched and not settled: [att, out]
  upTimers,    \* deadline timers armed and not fired, by attempt
  upDiscarded, \* settlements Promise.race ignored, counted by side
  upPauses,    \* number of 500 ms pauses completed
  upResult,    \* "none" or the returned list
  crPc,        \* create: "idle" | "upload" | "done"
  crDto,       \* the request DTO of the create call
  crEnv,       \* whether create's own console.log and repo.save work
  crEntity,    \* the entity create saved: <<>> or <<entity>>
  crResult,    \* "none" | "returned" | "threw"
  emRecords,   \* the emailData records the logging services of the call printed
  skRecords,   \* the emailData records printed by direct calls of the webhook service
  skCalls,     \* the direct calls of the webhook service: request and return value
  rndDraws,    \* how many values Math.random has handed out
  ccKind,      \* concurrent calls: "none" | "email" | "upload"
  ccCfg,       \* process.env and ConfigService, shared by the concurrent calls
  ccEm,        \* the locals of each concurrent sendEmail call
  ccUp,        \* the locals of each concurrent uploadBase64Images call
  qStore,      \* the quotation collection: id -> <<>> or <<document>>
  qUpd,        \* the update call between its findOne and its save
  qLast,       \* the call that returned last: its id or argument, its result
  sdRepo,      \* the EventType and PhotographyType records: how many per name
  sdCalls,     \* where each seedInitialData call is
  sdCompleted  \* number of seedInitialData calls that have returned

emVars == <<emPc, emCfg, emI, emAttempts, emOutcomes, emEnv, emResult, emRecords>>
upVars == <<upPc, upIn, upI, upB, upImageUrl, upSuccess, upUrls, upAttempts,
            upCall, upInFlight, upTimers, upDiscarded, upPauses, upResult>>
crVars == <<crPc, crDto, crEnv, crEntity, crResult>>
skVars == <<skRecords, skCalls, rndDraws>>
ccVars == <<ccKind, ccCfg, ccEm, ccUp>>
qVars == <<qStore, qUpd, qLast>>
sdVars == <<sdRepo, sdCalls, sdCompleted>>
vars == <<emVars, upVars, crVars, skVars, ccVars, qVars, sdVars>>

(***************************************************************************)
(* RobustEmailService                                                      *)
(***************************************************************************)

\* The list with the two HTTP providers exchanged.
strategiesSwapped ==
  << "trySendGridAPI", "tryResend", "tryGmailSMTP", "trySmtpOnly",
     "tryRailwayDirect", "tryRailwayEmail", "tryWebhook", "tryConsoleLog" >>

\* The list with the guaranteed logging moved in front of tryWebhook.
strategiesSinkNotLast ==
  << "tryResend", "trySendGridAPI", "tryGmailSMTP", "trySmtpOnly",
     "tryRailwayDirect", "tryRailwayEmail", "tryConsoleLog", "tryWebhook" >>

\* The strategy list built by sendEmail, in the order of the array literal.
strategies ==
  << "tryResend", "trySendGridAPI", "tryGmailSMTP", "trySmtpOnly",
     "tryRailwayDirect", "tryRailwayEmail", "tryWebhook", "tryConsoleLog" >>

\* Values of process.env and ConfigService for one call.  resendClient is
\* the field set by the ResendEmailService constructor.
EmailConfigs ==
  [ nodeEnv      : {"production", "local"},
    resendApiKey : BOOLEAN,
    resendClient : BOOLEAN,
    sendGridApiKey : BOOLEAN,
    sendGridFrom : BOOLEAN,
    smtpUser     : BOOLEAN,
    smtpPass     : BOOLEAN ]

\* What the outside world does during one strategy invocation: whether
\* console.log works, and how the external call (if reached) ends.
EnvOf(s) ==
  CASE s = "tryResend"      -> [console : BOOLEAN, io : {"ok", "error", "throw", "never"}]
    [] s = "trySendGridAPI" -> [console : BOOLEAN, io : {"ok", "error", "throw", "never"}]
    [] s = "tryGmailSMTP"   -> [console : BOOLEAN, io : {"cfg1", "cfg2", "cfg3", "none"}]
    [] s = "trySmtpOnly"    -> [console : {TRUE},  io : {"ok", "error", "throw"}]
    [] OTHER                -> [console : BOOLEAN, io : {"ok"}]

\* Result of a strategy: ret is what the promise settles to, contacts the
\* number of external calls made, via how a true came about.
Res(ret, contacts, via) == [ret |-> ret, contacts |-> contacts, via |-> via]

\* ResendEmailService.logEmailFallback: true unless console.log throws.
logEmailFallback(env, contacts) ==
  IF env.console THEN Res("true", contacts, "log") ELSE Res("false", contacts, "none")

\* A Resend service that gives up without an API key or a client.
tryResendFailsWithoutKey(cfg, env) ==
  IF ~env.console THEN logEmailFallback(env, 0)
  ELSE IF ~cfg.resendApiKey \/ ~cfg.resendClient THEN Res("false", 0, "none")
  ELSE IF env.io = "ok" THEN Res("true", 1, "provider")
  ELSE logEmailFallback(env, 1)

\* ResendEmailService.sendEmail wrapped by tryResend.
tryResend(cfg, env) ==
  IF ~env.console THEN logEmailFallback(env, 0)
  ELSE IF ~cfg.resendApiKey \/ ~cfg.resendClient THEN logEmailFallback(env, 0)
  ELSE IF env.io = "ok" THEN Res("true", 1, "provider")
  ELSE logEmailFallback(env, 1)

\* A SendGrid strategy that repeats a failed request once.
trySendGridAPIRetries(cfg, env) ==
  IF ~env.console THEN Res("throw", 0, "none")
  ELSE IF ~cfg.sendGridApiKey \/ ~cfg.sendGridFrom THEN Res("throw", 0, "none")
  ELSE IF env.io = "ok" THEN Res("true", 1, "provider")
  ELSE Res("throw", 2, "none")

\* A SendGrid strategy that looks at its credentials after the request.
trySendGridAPIChecksLate(cfg, env) ==
  IF ~env.console THEN Res("throw", 0, "none")
  ELSE IF ~cfg.sendGridApiKey \/ ~cfg.sendGridFrom THEN Res("throw", 1, "none")
  ELSE IF env.io = "ok" THEN Res("true", 1, "provider")
  ELSE Res("throw", 1, "none")

\* trySendGridAPI: throws on every path but response.ok.
trySendGridAPI(cfg, env) ==
  IF ~env.console THEN Res("throw", 0, "none")
  ELSE IF ~cfg.sendGridApiKey \/ ~cfg.sendGridFrom THEN Res("throw", 0, "none")
  ELSE IF env.io = "ok" THEN Res("true", 1, "provider")
  ELSE Res("throw", 1, "none")

\* The three transports of tryGmailSMTP, tried in order.
GmailConfigs == <<"cfg1", "cfg2", "cfg3">>

\* tryGmailSMTP: env.io names the first transport that works, if any.
tryGmailSMTP(cfg, env) ==
  IF ~env.console THEN Res("throw", 0, "none")
  ELSE IF ~cfg.smtpUser \/ ~cfg.smtpPass THEN Res("throw", 0, "none")
  ELSE IF \E k \in 1..Len(GmailConfigs) : GmailConfigs[k] = env.io
       THEN Res("true", CHOOSE k \in 1..Len(GmailConfigs) : GmailConfigs[k] = env.io, "provider")
       ELSE Res("throw", Len(GmailConfigs), "none")

\* trySmtpOnly delegates to SmtpOnlyEmailService.sendEmail and rethrows.
trySmtpOnly(cfg, env) ==
  CASE env.io = "ok"    -> Res("true", 1, "provider")
    [] env.io = "error" -> Res("false", 1, "none")
    [] OTHER            -> Res("throw", 1, "none")

\* RailwayDirectEmailService.sendEmail, RailwayEmailService.sendEmail and
\* WebhookEmailService.sendEmailViaWebhook: log, true; false if logging throws.
\* A logging service that reports what it logged as not delivered.
tryRailwayDirectLoggedIsFalse(cfg, env) ==
  IF env.console THEN Res("false", 0, "log") ELSE Res("false", 0, "none")

tryRailwayDirect(cfg, env) ==
  IF env.console THEN Res("true", 0, "log") ELSE Res("false", 0, "none")

tryRailwayEmail(cfg, env) ==
  IF env.console THEN Res("true", 0, "log") ELSE Res("false", 0, "none")

\* A webhook service that lets the error of its logging through.
tryWebhookThrows(cfg, env) ==
  IF env.console THEN Res("true", 0, "log") ELSE Res("throw", 0, "none")

tryWebhook(cfg, env) ==
  IF env.console THEN Res("true", 0, "log") ELSE Res("false", 0, "none")

\* tryConsoleLog: logs and returns true; rethrows what console.log throws.
tryConsoleLog(cfg, env) ==
  IF env.console THEN Res("true", 0, "log") ELSE Res("throw", 0, "none")

\* Values Date.now() returns during one run.
MaxClock == 2

\* The prefix each logging service puts in front of the ids it builds.
IdPrefix(service) ==
  CASE service = "RESEND_FALLBACK" -> "resend_fallback"
    [] service = "RAILWAY_DIRECT"  -> "railway_direct"
    [] service = "RAILWAY_WEBHOOK" -> "railway_email"
    [] OTHER                       -> "email"

\* An id built once and handed to every service.
NewIdShared(service, now, draw) == <<"email", 1, 1>>

\* `<prefix>_${Date.now()}_${Math.random().toString(36).substr(2, 9)}`:
\* draw is the value Math.random hands out, the draw-th of the run.
NewId(service, now, draw) == <<IdPrefix(service), now, draw>>

\* The service whose emailData a strategy builds, "" if it builds none.
ServiceOf(s, r) ==
  CASE s = "tryResend" /\ r.via # "provider" -> "RESEND_FALLBACK"
    [] s = "tryRailwayDirect" -> "RAILWAY_DIRECT"
    [] s = "tryRailwayEmail"  -> "RAILWAY_WEBHOOK"
    [] s = "tryWebhook"       -> "WEBHOOK"
    [] OTHER                  -> ""

\* Whether the emailData JSON got printed: it did when the service
\* returned true; RailwayDirectEmailService prints one more line after
\* it, so its false may come after the record.
Printed(s, r) ==
  IF r.via = "log" THEN {TRUE}
  ELSE IF s = "tryRailwayDirect" THEN {TRUE, FALSE}
  ELSE {FALSE}

\* strategies[i]() by name.
RunStrategy(s, cfg, env) ==
  CASE s = "tryResend"        -> tryResend(cfg, env)
    [] s = "trySendGridAPI"   -> trySendGridAPI(cfg, env)
    [] s = "tryGmailSMTP"     -> tryGmailSMTP(cfg, env)
    [] s = "trySmtpOnly"      -> trySmtpOnly(cfg, env)
    [] s = "tryRailwayDirect" -> tryRailwayDirect(cfg, env)
    [] s = "tryRailwayEmail"  -> tryRailwayEmail(cfg, env)
    [] s = "tryWebhook"       -> tryWebhook(cfg, env)
    [] OTHER                  -> tryConsoleLog(cfg, env)

\* The awaited external call never settles: the Resend send and the
\* SendGrid fetch are awaited with no deadline around them.
Hangs(s, cfg, env) ==
  /\ s \in {"tryResend", "trySendGridAPI"}
  /\ env.io = "never"
  /\ env.console
  /\ IF s = "tryResend" THEN cfg.resendApiKey /\ cfg.resendClient
                        ELSE cfg.sendGridApiKey /\ cfg.sendGridFrom

\* Variants of the loop body: a success that does not return, a false that
\* ends the walk, a throw that escapes the loop.
LoopAfterNoReturn(ret, i) ==
  IF i < Len(strategies) THEN [pc |-> "await", result |-> "none", i |-> i + 1]
  ELSE [pc |-> "done", result |-> IF ret = "true" THEN "true" ELSE "false", i |-> i + 1]

LoopAfterFalseStops(ret, i) ==
  IF ret = "true" THEN [pc |-> "done", result |-> "true", i |-> i]
  ELSE IF ret = "false" THEN [pc |-> "done", result |-> "false", i |-> i]
  ELSE IF i < Len(strategies) THEN [pc |-> "await", result |-> "none", i |-> i + 1]
  ELSE [pc |-> "done", result |-> "false", i |-> i + 1]

LoopAfterThrowEscapes(ret, i) ==
  IF ret = "true" THEN [pc |-> "done", result |-> "true", i |-> i]
  ELSE IF ret = "throw" THEN [pc |-> "done", result |-> "rejected", i |-> i]
  ELSE IF i < Len(strategies) THEN [pc |-> "await", result |-> "none", i |-> i + 1]
  ELSE [pc |-> "done", result |-> "false", i |-> i + 1]

\* Body of the for loop of sendEmail after strategies[i]() settled with ret:
\* where the loop goes next.
LoopAfter(ret, i) ==
  IF ret = "true" THEN [pc |-> "done", result |-> "true", i |-> i]
  ELSE IF i < Len(strategies) THEN [pc |-> "await", result |-> "none", i |-> i + 1]
  ELSE [pc |-> "done", result |-> "false", i |-> i + 1]

\* sendEmail is called: the configuration is read, the list is built and
\* strategies[0]() is invoked and awaited.
sendEmail ==
  /\ emPc = "idle"
  /\ \E cfg \in EmailConfigs, env \in EnvOf(strategies[1]) :
       /\ emCfg' = cfg
       /\ emEnv' = env
  /\ emPc' = "await"
  /\ emI' = 1
  /\ emAttempts' = <<strategies[1]>>
  /\ UNCHANGED <<emOutcomes, emResult, emRecords, upVars, crVars, skVars, ccVars, qVars, sdVars>>

\* The awaited strategy settles; sendEmail resumes, and either returns or
\* invokes the next strategy and awaits it.
StrategySettles ==
  /\ emPc = "await"
  /\ ~Hangs(strategies[emI], emCfg, emEnv)
  /\ LET r == RunStrategy(strategies[emI], emCfg, emEnv)
         n == LoopAfter(r.ret, emI)
         svc == ServiceOf(strategies[emI], r)
     IN /\ emOutcomes' = Append(emOutcomes, r)
        /\ IF svc = ""
           THEN UNCHANGED <<emRecords, rndDraws>>
           ELSE /\ rndDraws' = rndDraws + 1
                /\ \E now \in 1..MaxClock, p \in Printed(strategies[emI], r) :
                     emRecords' = IF p THEN Append(emRecords,
                                                   [service |-> svc,
                                                    id |-> NewId(svc, now, rndDraws + 1)])
                                       ELSE emRecords
        /\ emPc' = n.pc
        /\ emResult' = n.result
        /\ emI' = n.i
        /\ IF n.pc = "await"
           THEN /\ emAttempts' = Append(emAttempts, strategies[n.i])
                /\ \E env \in EnvOf(strategies[n.i]) : emEnv' = env
           ELSE UNCHANGED <<emAttempts, emEnv>>
  /\ UNCHANGED <<emCfg, skRecords, skCalls, upVars, crVars, ccVars, qVars, sdVars>>

EmailNext == sendEmail \/ StrategySettles

(***************************************************************************)
(* QuotationRequestService.uploadBase64Images                              *)
(***************************************************************************)

\* Largest number of images in one call.
MaxImages == 2

\* Latencies of a provider call: well within, and beyond, the deadline.
FastMs == 200
SlowMs == 45000

\* The deadline uploadBase64Images passes to uploadWithTimeout.
UploadTimeoutMs == 30000

\* The pause between images.
PauseMs == 500

\* The buckets tried for every image, in order.
supabaseBuckets == <<"profiles", "uploads">>

\* An image of the input: a well-formed data URL, a string the regular
\* expression rejects, or an empty entry.
ImageKinds == {"valid", "invalid", "empty"}

ImageLists == UNION { [1..n -> ImageKinds] : n \in 1..MaxImages }

\* The inputs of one call: the images, NODE_ENV, whether the aws config has
\* bucketName and bucketFolderName, and the images at which the progress
\* console.log throws.
UploadInputs ==
  UNION { [ images : {imgs}, nodeEnv : {"local", "production"},
            hasAwsConfig : BOOLEAN,
            logThrows : SUBSET {k \in 1..Len(imgs) : imgs[k] = "valid"} ]
          : imgs \in ImageLists }

\* How a provider call ends: with a publicUrl / Location, with none, with a
\* rejection, or never; and after how long.  A call that yields no URL
\* fails the attempt whichever side of the race wins, so the slow failure
\* is drawn as a rejection only.
Calls ==
  [out : {"url"}, lat : {FastMs, UploadTimeoutMs, SlowMs}]
    \cup [out : {"reject"}, lat : {FastMs, SlowMs}]
    \cup {[out |-> "nourl", lat |-> FastMs]}
    \cup {[out |-> "never", lat |-> SlowMs]}

NoCall == [out |-> "never", lat |-> 0]

\* imageUrl = '' and the URL a provider returns for an attempt.
EmptyUrl == <<0, "">>
UrlOf(att) == att

\* uploadWithTimeout: which side of Promise.race can settle first.
RaceWinners(call, timeoutMs) ==
  {w \in {"upload", "timer"} :
     \/ w = "upload" /\ call.out # "never" /\ call.lat <= timeoutMs
     \/ w = "timer" /\ (call.out = "never" \/ call.lat >= timeoutMs)}

\* A race that hands back the upload's result whoever wins.
RaceValueWaitsForUpload(call, winner) ==
  IF call.out = "never" THEN "reject" ELSE call.out

\* uploadWithTimeout: the value the race settles to.
RaceValue(call, winner) ==
  IF winner = "timer" THEN "reject" ELSE call.out

\* The loser of a race settles later: the race is already settled.
UrlsAfterLateSettlePushes(urls, rec) ==
  IF rec.out = "url" THEN Append(urls, UrlOf(rec.att)) ELSE urls

UrlsAfterLateSettle(urls, rec) == urls

\* The state of one call as a record.
Up ==
  [ pc |-> upPc, i |-> upI, b |-> upB, imageUrl |-> upImageUrl,
    success |-> upSuccess, urls |-> upUrls, attempts |-> upAttempts,
    call |-> upCall, inFlight |-> upInFlight, timers |-> upTimers,
    result |-> upResult ]

SetUp(s) ==
  /\ upPc' = s.pc
  /\ upI' = s.i
  /\ upB' = s.b
  /\ upImageUrl' = s.imageUrl
  /\ upSuccess' = s.success
  /\ upUrls' = s.urls
  /\ upAttempts' = s.attempts
  /\ upCall' = s.call
  /\ upInFlight' = s.inFlight
  /\ upTimers' = s.timers
  /\ upResult' = s.result

\* Resume the call; k[c] is where the resumption leads when the provider
\* call it dispatches, if it dispatches one, will end as c: the outside
\* world chooses c.
Resume(k) ==
  IF k[NoCall].pc \in {"race", "awaitS3"}
  THEN \E c \in Calls : SetUp(k[c])
  ELSE SetUp(k[NoCall])

\* uploadedUrls.filter(url => url && url.trim() !== '')
FilterUrls(urls) == SelectSeq(urls, LAMBDA u : u # EmptyUrl)

\* A dispatch that fans out: the upload to every bucket from b on is
\* started at once, and the first of them is awaited.
StartSupabaseFanOut(s, b, c) ==
  LET atts == {<<s.i, supabaseBuckets[k]>> : k \in b..Len(supabaseBuckets)}
  IN [s EXCEPT !.pc = "race", !.b = b, !.call = c,
               !.attempts = Append(@, <<s.i, supabaseBuckets[b]>>),
               !.inFlight = @ \cup {[att |-> a, out |-> c.out] : a \in atts},
               !.timers = @ \cup atts]

\* this.uploadWithTimeout(this.supabaseService.upload({bucket}), 30000):
\* the upload is dispatched, the timer armed, the race awaited.
StartSupabase(s, b, c) ==
  LET att == <<s.i, supabaseBuckets[b]>>
  IN [s EXCEPT !.pc = "race", !.b = b, !.call = c,
               !.attempts = Append(@, att),
               !.inFlight = @ \cup {[att |-> att, out |-> c.out]},
               !.timers = @ \cup {att}]

\* await this.awsS3Service.uploadFilesToS3Bucket(awsUploadReqDto)
StartS3(s, c) ==
  LET att == <<s.i, "s3">>
  IN [s EXCEPT !.pc = "awaitS3", !.call = c,
               !.attempts = Append(@, att),
               !.inFlight = @ \cup {[att |-> att, out |-> c.out]}]

\* The locals of one iteration (imageUrl, uploadSuccess, bucket) go out of
\* scope when the iteration ends, and no provider call is awaited.
EndIteration(s) ==
  [s EXCEPT !.b = 0, !.imageUrl = EmptyUrl, !.success = FALSE, !.call = NoCall]

\* The head of the for loop over the images, from image s.i on, up to the
\* next await or the return.
RECURSIVE NextImage(_, _, _)

\* A loop that an empty or malformed entry ends: the call returns what it
\* has got so far.
NextImageStopsAtMalformed(s, in, c) ==
  IF s.i > Len(in.images) \/ in.images[s.i] \in {"empty", "invalid"}
  THEN [s EXCEPT !.pc = "done", !.call = NoCall, !.result = FilterUrls(s.urls)]
  ELSE IF s.i \in in.logThrows
  THEN IF s.i < Len(in.images)
       THEN EndIteration([s EXCEPT !.pc = "delay"])
       ELSE NextImage(EndIteration([s EXCEPT !.i = @ + 1]), in, c)
  ELSE StartSupabase([s EXCEPT !.imageUrl = EmptyUrl, !.success = FALSE], 1, c)

NextImage(s, in, c) ==
  IF s.i > Len(in.images)
  THEN [s EXCEPT !.pc = "done", !.call = NoCall, !.result = FilterUrls(s.urls)]
  ELSE IF in.images[s.i] \in {"empty", "invalid"}
  THEN NextImage([s EXCEPT !.i = @ + 1], in, c)
  ELSE IF s.i \in in.logThrows
  THEN IF s.i < Len(in.images)
       THEN EndIteration([s EXCEPT !.pc = "delay"])
       ELSE NextImage(EndIteration([s EXCEPT !.i = @ + 1]), in, c)
  ELSE StartSupabase([s EXCEPT !.imageUrl = EmptyUrl, !.success = FALSE], 1, c)

\* A loop that returns what it has as soon as one image got no URL.
AfterImageStopsOnFailure(s, in, c) ==
  LET t == IF s.imageUrl # EmptyUrl
           THEN [s EXCEPT !.urls = Append(@, s.imageUrl)] ELSE s
  IN IF s.imageUrl = EmptyUrl
     THEN EndIteration([t EXCEPT !.pc = "done", !.result = FilterUrls(t.urls)])
     ELSE IF t.i < Len(in.images)
     THEN EndIteration([t EXCEPT !.pc = "delay"])
     ELSE NextImage(EndIteration([t EXCEPT !.i = @ + 1]), in, c)

\* A loop that pauses after every image, the last one included.
AfterImagePausesAfterLast(s, in, c) ==
  LET t == IF s.imageUrl # EmptyUrl
           THEN [s EXCEPT !.urls = Append(@, s.imageUrl)] ELSE s
  IN EndIteration([t EXCEPT !.pc = "delay"])

\* A loop that goes from one image to the next without pausing.
AfterImageNoPause(s, in, c) ==
  LET t == IF s.imageUrl # EmptyUrl
           THEN [s EXCEPT !.urls = Append(@, s.imageUrl)] ELSE s
  IN NextImage(EndIteration([t EXCEPT !.i = @ + 1]), in, c)

\* After the providers of image s.i: push a non-empty URL, then pause
\* unless the image is the last one.
AfterImage(s, in, c) ==
  LET t == IF s.imageUrl # EmptyUrl
           THEN [s EXCEPT !.urls = Append(@, s.imageUrl)] ELSE s
  IN IF t.i < Len(in.images)
     THEN EndIteration([t EXCEPT !.pc = "delay"])
     ELSE NextImage(EndIteration([t EXCEPT !.i = @ + 1]), in, c)

\* A production branch that uploads to AWS S3 whatever the buckets did
\* and whatever the aws config holds.
AfterBucketsAlwaysS3(s, in, c) ==
  IF in.nodeEnv = "local" THEN AfterImage(s, in, c) ELSE StartS3(s, c)

\* After the loop over supabaseBuckets: the AWS S3 fallback of the
\* production branch, none in the local branch.
AfterBuckets(s, in, c) ==
  IF in.nodeEnv = "local" THEN AfterImage(s, in, c)
  ELSE IF ~s.success /\ in.hasAwsConfig THEN StartS3(s, c)
  ELSE AfterImage(IF s.success THEN s ELSE [s EXCEPT !.imageUrl = EmptyUrl], in, c)

\* A rejected attempt that leaves the bucket loop instead of continuing.
AfterSupabaseRejectBreaks(s, in, value, c) ==
  IF value = "url"
  THEN AfterBuckets([s EXCEPT !.imageUrl = UrlOf(<<s.i, supabaseBuckets[s.b]>>),
                              !.success = TRUE], in, c)
  ELSE IF value = "nourl" /\ s.b < Len(supabaseBuckets) THEN StartSupabase(s, s.b + 1, c)
  ELSE AfterBuckets(s, in, c)

\* The body of the bucket loop after the awaited race settled with value.
AfterSupabase(s, in, value, c) ==
  IF value = "url"
  THEN AfterBuckets([s EXCEPT !.imageUrl = UrlOf(<<s.i, supabaseBuckets[s.b]>>),
                              !.success = TRUE], in, c)
  ELSE IF s.b < Len(supabaseBuckets) THEN StartSupabase(s, s.b + 1, c)
  ELSE AfterBuckets(s, in, c)

\* After the awaited S3 upload settled with value.
AfterS3(s, in, value, c) ==
  IF value = "url"
  THEN AfterImage([s EXCEPT !.imageUrl = UrlOf(<<s.i, "s3">>), !.success = TRUE], in, c)
  ELSE AfterImage([s EXCEPT !.imageUrl = EmptyUrl], in, c)

\* The attempt being awaited.
Awaited == upAttempts[Len(upAttempts)]

\* uploadBase64Images(in.images) is called and runs to its first await.
CallUpload(in) ==
  /\ upIn' = in
  /\ Resume([c \in Calls \cup {NoCall} |-> NextImage([Up EXCEPT !.i = 1], in, c)])
  /\ UNCHANGED <<upDiscarded, upPauses>>

\* A call of uploadBase64Images on its own.
uploadBase64Images ==
  /\ upPc = "idle"
  /\ \E in \in UploadInputs : CallUpload(in)
  /\ UNCHANGED <<emVars, crVars, skVars, ccVars, qVars, sdVars>>

\* The awaited upload settles before its deadline.
UploadSettlesFirst ==
  /\ upPc = "race"
  /\ "upload" \in RaceWinners(upCall, UploadTimeoutMs)
  /\ LET v == RaceValue(upCall, "upload")
         s == [Up EXCEPT !.inFlight = @ \ {[att |-> Awaited, out |-> upCall.out]}]
     IN Resume([c \in Calls \cup {NoCall} |-> AfterSupabase(s, upIn, v, c)])
  /\ UNCHANGED <<upIn, upDiscarded, upPauses, emVars, crVars, skVars, ccVars, qVars, sdVars>>

\* The deadline of the awaited upload expires first.
TimerFiresFirst ==
  /\ upPc = "race"
  /\ "timer" \in RaceWinners(upCall, UploadTimeoutMs)
  /\ LET v == RaceValue(upCall, "timer")
         s == [Up EXCEPT !.timers = @ \ {Awaited}]
     IN Resume([c \in Calls \cup {NoCall} |-> AfterSupabase(s, upIn, v, c)])
  /\ UNCHANGED <<upIn, upDiscarded, upPauses, emVars, crVars, skVars, ccVars, qVars, sdVars>>

\* An upload whose race was lost to the timer settles in the background.
LateUploadSettles ==
  /\ \E rec \in upInFlight :
       /\ ~(upPc \in {"race", "awaitS3"} /\ rec.att = Awaited)
       /\ rec.out # "never"
       /\ upInFlight' = upInFlight \ {rec}
       /\ upUrls' = UrlsAfterLateSettle(upUrls, rec)
       /\ upDiscarded' = [upDiscarded EXCEPT !.upload = @ + 1]
  /\ UNCHANGED <<upPc, upIn, upI, upB, upImageUrl, upSuccess, upAttempts, upCall,
                 upTimers, upPauses, upResult, emVars, crVars, skVars, ccVars, qVars, sdVars>>

\* The timer of a race the upload won fires: nothing is listening.
LateTimerFires ==
  /\ \E att \in upTimers :
       /\ ~(upPc = "race" /\ att = Awaited)
       /\ upTimers' = upTimers \ {att}
       /\ upDiscarded' = [upDiscarded EXCEPT !.timer = @ + 1]
  /\ UNCHANGED <<upPc, upIn, upI, upB, upImageUrl, upSuccess, upUrls, upAttempts,
                 upCall, upInFlight, upPauses, upResult, emVars, crVars, skVars, ccVars, qVars, sdVars>>

\* The awaited S3 upload settles.
S3Settles ==
  /\ upPc = "awaitS3"
  /\ upCall.out # "never"
  /\ LET s == [Up EXCEPT !.inFlight = @ \ {[att |-> Awaited, out |-> upCall.out]}]
     IN Resume([c \in Calls \cup {NoCall} |-> AfterS3(s, upIn, upCall.out, c)])
  /\ UNCHANGED <<upIn, upDiscarded, upPauses, emVars, crVars, skVars, ccVars, qVars, sdVars>>

\* The pause between two images is over.
DelayElapses ==
  /\ upPc = "delay"
  /\ upPauses' = upPauses + 1
  /\ Resume([c \in Calls \cup {NoCall} |-> NextImage([Up EXCEPT !.i = @ + 1], upIn, c)])
  /\ UNCHANGED <<upIn, upDiscarded, emVars, crVars, skVars, ccVars, qVars, sdVars>>

UploadNext ==
  \/ uploadBase64Images
  \/ UploadSettlesFirst
  \/ TimerFiresFirst
  \/ LateUploadSettles
  \/ LateTimerFires
  \/ S3Settles
  \/ DelayElapses

(***************************************************************************)
(* QuotationRequestService.create                                          *)
(***************************************************************************)

\* What happens to create's own statements: they all work, one throws up
\* to the save (a console.log before it, or repo.save itself), or a
\* console.log throws after the save.
CreateEnvs == {"ok", "throwsBeforeSave", "throwsAfterSave"}

\* A create that gives up when images were sent and none was uploaded.
createAfterUploadNeedsUrls(outcome, urls, env) ==
  LET images == IF outcome = "returned" THEN urls ELSE <<>>
      entity == [referenceImages |-> images, status |-> "pending", isDeleted |-> FALSE]
  IN IF env = "throwsBeforeSave" \/ (outcome # "none" /\ images = <<>>)
     THEN [result |-> "threw", saved |-> <<>>]
     ELSE IF env = "throwsAfterSave" THEN [result |-> "threw", saved |-> <<entity>>]
     ELSE [result |-> "returned", saved |-> <<entity>>]

\* create from the end of the image upload on.  outcome tells whether
\* uploadBase64Images was called at all and whether it returned urls or
\* threw; the entity is built, saved and returned.
createAfterUpload(outcome, urls, env) ==
  LET images == IF outcome = "returned" THEN urls ELSE <<>>
      entity == [referenceImages |-> images, status |-> "pending", isDeleted |-> FALSE]
  IN IF env = "throwsBeforeSave"
     THEN [result |-> "threw", saved |-> <<>>]
     ELSE IF env = "throwsAfterSave" THEN [result |-> "threw", saved |-> <<entity>>]
     ELSE [result |-> "returned", saved |-> <<entity>>]

\* create is called: with reference images it awaits uploadBase64Images,
\* without any it goes on to the save.
create ==
  /\ crPc = "idle"
  /\ upPc = "idle"
  /\ \E imgs \in ImageLists \cup {<<>>} :
       /\ crDto' = [referenceImages |-> imgs]
       /\ IF Len(imgs) > 0
          THEN /\ crPc' = "upload"
               /\ \E in \in UploadInputs : in.images = imgs /\ CallUpload(in)
               /\ UNCHANGED <<crEnv, crEntity, crResult>>
          ELSE /\ \E env \in CreateEnvs :
                    LET r == createAfterUpload("none", <<>>, env)
                    IN /\ crEnv' = env
                       /\ crEntity' = r.saved
                       /\ crResult' = r.result
               /\ crPc' = "done"
               /\ UNCHANGED upVars
  /\ UNCHANGED <<emVars, skVars, ccVars, qVars, sdVars>>

\* uploadBase64Images has returned: create resumes, saves and returns.
createResumes ==
  /\ crPc = "upload"
  /\ upPc = "done"
  /\ \E env \in CreateEnvs :
       LET r == createAfterUpload("returned", upResult, env)
       IN /\ crEnv' = env
          /\ crEntity' = r.saved
          /\ crResult' = r.result
  /\ crPc' = "done"
  /\ UNCHANGED <<crDto, emVars, upVars, skVars, ccVars, qVars, sdVars>>

CreateNext ==
  \/ create
  \/ createResumes
  \/ UploadSettlesFirst
  \/ TimerFiresFirst
  \/ LateUploadSettles
  \/ LateTimerFires
  \/ S3Settles
  \/ DelayElapses

(***************************************************************************)
(* WebhookEmailService                                                     *)
(***************************************************************************)

\* Largest number of direct calls in one run, and the (to, subject, text)
\* triples they are made with.
MaxCalls == 3
Requests == {"r1", "r2"}

\* A sink that prints nothing for a request it has already printed.
sendEmailViaWebhookDedup(records, req, console, now, draw) ==
  IF ~console THEN [ret |-> "false", records |-> records]
  ELSE IF \E n \in 1..Len(records) : records[n].req = req
       THEN [ret |-> "true", records |-> records]
       ELSE [ret |-> "true",
             records |-> Append(records, [service |-> "WEBHOOK",
                                          id |-> NewId("WEBHOOK", now, draw),
                                          req |-> req])]

\* sendEmailViaWebhook: builds emailData with a new id, prints it and
\* returns true; false when console.log throws.
sendEmailViaWebhook(records, req, console, now, draw) ==
  IF ~console THEN [ret |-> "false", records |-> records]
  ELSE [ret |-> "true",
        records |-> Append(records, [service |-> "WEBHOOK",
                                     id |-> NewId("WEBHOOK", now, draw),
                                     req |-> req])]

\* One direct call of the service.
CallWebhook ==
  /\ Len(skCalls) < MaxCalls
  /\ \E req \in Requests, console \in BOOLEAN, now \in 1..MaxClock :
       LET r == sendEmailViaWebhook(skRecords, req, console, now, rndDraws + 1)
       IN /\ skRecords' = r.records
          /\ skCalls' = Append(skCalls, [req |-> req, ret |-> r.ret])
  /\ rndDraws' = rndDraws + 1
  /\ UNCHANGED <<emVars, upVars, crVars, ccVars, qVars, sdVars>>

SinkNext == CallWebhook

(***************************************************************************)
(* Two calls in flight at once                                             *)
(***************************************************************************)

\* The calls that run interleaved on the one event loop.
Callers == {1, 2}

\* The locals of a sendEmail call that has not started.
EmIdle ==
  [ pc |-> "idle", i |-> 0, env |-> [console |-> TRUE, io |-> "ok"],
    attempts |-> <<>>, outcomes |-> <<>>, result |-> "none" ]

\* sendEmail up to its first await.
EmailStart(env) ==
  [ pc |-> "await", i |-> 1, env |-> env, attempts |-> <<strategies[1]>>,
    outcomes |-> <<>>, result |-> "none" ]

\* sendEmail from the settling of strategies[i]() to its next await or
\* its return; i is the loop variable the call reads, env what the world
\* does during the strategy it invokes next.
EmailResume(e, i, cfg, env) ==
  LET r == RunStrategy(strategies[i], cfg, e.env)
      n == LoopAfter(r.ret, i)
  IN [ pc |-> n.pc, i |-> n.i, result |-> n.result,
       outcomes |-> Append(e.outcomes, r),
       attempts |-> IF n.pc = "await" THEN Append(e.attempts, strategies[n.i])
                                      ELSE e.attempts,
       env |-> IF n.pc = "await" THEN env ELSE e.env ]

\* A loop variable kept in a field of the service: every call reads the
\* value written last.
LoopIndexShared(em, c) ==
  CHOOSE i \in {em[d].i : d \in Callers} : \A d \in Callers : em[d].i <= i

\* for (let i = 0; ...): the loop variable is a local of the call.
LoopIndex(em, c) == em[c].i

\* The locals of an uploadBase64Images call that has not started.
UpIdle ==
  [ pc |-> "idle", i |-> 0, b |-> 0, imageUrl |-> EmptyUrl, success |-> FALSE,
    urls |-> <<>>, attempts |-> <<>>, call |-> NoCall, inFlight |-> {},
    timers |-> {}, result |-> "none",
    in |-> [images |-> <<>>, nodeEnv |-> "production", hasAwsConfig |-> FALSE,
            logThrows |-> {}] ]

\* The inputs of a call that runs beside another: calls of one image.
ConcUploadInputs == {in \in UploadInputs : DOMAIN in.images = {1}}

\* The records a resumption can lead to: the outside world chooses how
\* the provider call it dispatches, if any, will end.
ResumeRec(k) ==
  IF k[NoCall].pc \in {"race", "awaitS3"} THEN {k[c] : c \in Calls} ELSE {k[NoCall]}

\* uploadBase64Images(in.images) up to its first await.
UploadStart(in) ==
  ResumeRec([cl \in Calls \cup {NoCall} |->
               NextImage([UpIdle EXCEPT !.i = 1, !.in = in], in, cl)])

\* One step of an uploadBase64Images call whose locals are s: the awaited
\* race or S3 upload settles, the pause ends, or the loser of an earlier
\* race settles.
UploadSteps(s) ==
  LET aw == s.attempts[Len(s.attempts)]
      awaiting == s.pc \in {"race", "awaitS3"}
      settled == [s EXCEPT !.inFlight = @ \ {[att |-> aw, out |-> s.call.out]}]
      fired == [s EXCEPT !.timers = @ \ {aw}]
      race == IF s.pc # "race" THEN {}
              ELSE UNION { ResumeRec([cl \in Calls \cup {NoCall} |->
                                        AfterSupabase(IF w = "upload" THEN settled ELSE fired,
                                                      s.in, RaceValue(s.call, w), cl)])
                           : w \in RaceWinners(s.call, UploadTimeoutMs) }
      s3 == IF s.pc # "awaitS3" \/ s.call.out = "never" THEN {}
            ELSE ResumeRec([cl \in Calls \cup {NoCall} |->
                              AfterS3(settled, s.in, s.call.out, cl)])
      delay == IF s.pc # "delay" THEN {}
               ELSE ResumeRec([cl \in Calls \cup {NoCall} |->
                                 NextImage([s EXCEPT !.i = @ + 1], s.in, cl)])
      lateUploads == { [s EXCEPT !.inFlight = @ \ {rec},
                                 !.urls = UrlsAfterLateSettle(@, rec)]
                       : rec \in {r \in s.inFlight :
                                    r.out # "never" /\ ~(awaiting /\ r.att = aw)} }
      lateTimers == { [s EXCEPT !.timers = @ \ {att}]
                      : att \in {a \in s.timers : ~(s.pc = "race" /\ a = aw)} }
  IN race \cup s3 \cup delay \cup lateUploads \cup lateTimers

\* An uploadedUrls array kept in a field of the service: every call
\* pushes to the same array.
UploadedUrlsShared(up, c) ==
  LET RECURSIVE cat(_)
      cat(S) == IF S = {} THEN <<>>
                ELSE LET d == CHOOSE x \in S : \A y \in S : x <= y
                     IN up[d].urls \o cat(S \ {d})
  IN cat(Callers)

\* const uploadedUrls: string[] = []: the array is a local of the call.
UploadedUrls(up, c) == up[c].urls

\* A call of uploadBase64Images starts while the other may be under way.
ConcUpload(c) ==
  /\ ccKind \in {"none", "upload"}
  /\ ccUp[c].pc = "idle"
  /\ IF ccKind = "none"
     THEN \E ne \in {"local", "production"}, aws \in BOOLEAN :
            ccCfg' = [ccCfg EXCEPT !.nodeEnv = ne, !.hasAwsConfig = aws]
     ELSE UNCHANGED ccCfg
  /\ ccKind' = "upload"
  /\ \E in \in ConcUploadInputs :
       /\ in.nodeEnv = ccCfg'.nodeEnv
       /\ in.hasAwsConfig = ccCfg'.hasAwsConfig
       /\ \E t \in UploadStart(in) : ccUp' = [ccUp EXCEPT ![c] = t]
  /\ UNCHANGED <<ccEm, emVars, upVars, crVars, skVars, qVars, sdVars>>

\* A call of uploadBase64Images takes its next step.
ConcUploadStep(c) ==
  /\ ccKind = "upload"
  /\ ccUp[c].pc # "idle"
  /\ \E t \in UploadSteps([ccUp[c] EXCEPT !.urls = UploadedUrls(ccUp, c)]) :
       ccUp' = [ccUp EXCEPT ![c] = t]
  /\ UNCHANGED <<ccKind, ccCfg, ccEm, emVars, upVars, crVars, skVars, qVars, sdVars>>

\* A call of sendEmail starts while the other may be under way.
ConcSendEmail(c) ==
  /\ ccKind \in {"none", "email"}
  /\ ccEm[c].pc = "idle"
  /\ IF ccKind = "none"
     THEN \E cfg \in EmailConfigs :
            ccCfg' = [ccCfg EXCEPT !.nodeEnv = cfg.nodeEnv,
                                   !.resendApiKey = cfg.resendApiKey,
                                   !.resendClient = cfg.resendClient,
                                   !.sendGridApiKey = cfg.sendGridApiKey,
                                   !.sendGridFrom = cfg.sendGridFrom,
                                   !.smtpUser = cfg.smtpUser,
                                   !.smtpPass = cfg.smtpPass]
     ELSE UNCHANGED ccCfg
  /\ ccKind' = "email"
  /\ \E env \in EnvOf(strategies[1]) :
       ccEm' = [ccEm EXCEPT ![c] = EmailStart(env)]
  /\ UNCHANGED <<ccUp, emVars, upVars, crVars, skVars, qVars, sdVars>>

\* The strategy a call awaits settles and the call resumes.
ConcStrategySettles(c) ==
  /\ ccKind = "email"
  /\ ccEm[c].pc = "await"
  /\ LoopIndex(ccEm, c) \in 1..Len(strategies)
  /\ ~Hangs(strategies[LoopIndex(ccEm, c)], ccCfg, ccEm[c].env)
  /\ LET i == LoopIndex(ccEm, c)
         e == EmailResume(ccEm[c], i, ccCfg, ccEm[c].env)
     IN IF e.pc = "await"
        THEN \E env \in EnvOf(strategies[e.i]) :
               ccEm' = [ccEm EXCEPT ![c] = EmailResume(ccEm[c], i, ccCfg, env)]
        ELSE ccEm' = [ccEm EXCEPT ![c] = e]
  /\ UNCHANGED <<ccKind, ccCfg, ccUp, emVars, upVars, crVars, skVars, qVars, sdVars>>

ConcNext ==
  \E c \in Callers :
    \/ ConcSendEmail(c)
    \/ ConcStrategySettles(c)
    \/ ConcUpload(c)
    \/ ConcUploadStep(c)

(***************************************************************************)
(* QuotationRequestService: the stored quotations                          *)
(***************************************************************************)

\* Largest number of quotations created in one run.
MaxQuotations == 2

QIds == 1..MaxQuotations

\* A JavaScript value that stands for an id: its type and its text.
Str(text) == <<"string", text>>
ObjectIdOf(text) == <<"objectId", text>>
JsUndefined == <<"undefined", "">>

\* String(x)
String(x) == IF x = JsUndefined THEN Str("undefined") ELSE Str(x[2])

\* if (x): undefined and the empty string are falsy.
Truthy(x) == x # JsUndefined /\ x[2] # ""

\* Who a quotation belongs to: the userId of the JWT and the vendorId and
\* venueId of the DTO; every user asks a vendor and a venue of their own.
Owners ==
  { [userId |-> Str("u1"), vendorId |-> Str("v1"), venueId |-> Str("n1")],
    [userId |-> Str("u2"), vendorId |-> Str("v2"), venueId |-> Str("n2")] }

\* The fields a request body of create may carry although the service
\* sets them itself: each is absent ("" or undefined) or has a value the
\* service would not choose.
NoExtras == [status |-> "", isDeleted |-> "", userId |-> JsUndefined]

CreateExtras ==
  [ status : {"", "quoted"}, isDeleted : {"", "true"},
    userId : {JsUndefined, Str("u2")} ]

\* What a call hands to its caller, with the id or the argument it was
\* called with and the number of repository calls it made; with the
\* extra fields of the body for create and the referenceImages of the
\* body for update.
Last(op, id, arg, result, data, queries) ==
  [ op |-> op, id |-> id, arg |-> arg, result |-> result, data |-> data,
    queries |-> queries, dto |-> NoExtras, images |-> <<>> ]

\* The statuses updateStatus is called with.
Statuses == {"pending", "quoted"}

\* An entry of updateDto.referenceImages: one of two URLs of stored
\* images, a well-formed data:image string, or a data:image string of
\* another format.
KeptUrl(x) == <<0, x>>
IsBase64(x) == x \in {"valid", "invalid"}

\* updateDto.referenceImages: absent or empty, or up to two entries of
\* which at most one is a new image.
UpdateImageLists ==
  {<<>>, <<"url">>, <<"url", "url2">>, <<"url2", "url">>} \cup
  UNION { {<<b>>, <<"url", b>>, <<b, "url">>} : b \in {"valid", "invalid"} }

\* The DTO of an update: its referenceImages, and userId, vendorId and
\* venueId, which are undefined or name another owner.
Undefined == [userId |-> JsUndefined, vendorId |-> JsUndefined, venueId |-> JsUndefined]

UpdateDtos(lists) == [referenceImages : lists, owner : Owners \cup {Undefined}]

\* No update call is between its findOne and its save.
UpdIdle ==
  [ pc |-> "idle", id |-> 0, entity |-> <<>>,
    dto |-> [referenceImages |-> <<>>, owner |-> Undefined], up |-> UpIdle ]

\* repo.findOne({ where: { _id, isDeleted: false } })
Found(store, id) == store[id] # <<>> /\ ~store[id][1].isDeleted

\* updateDto.referenceImages.filter(img => !img.startsWith('data:image'))
existingUrls(images) ==
  LET kept == SelectSeq(images, LAMBDA x : ~IsBase64(x))
  IN [n \in 1..Len(kept) |-> KeptUrl(kept[n])]

\* updateDto.referenceImages.filter(img => img.startsWith('data:image'))
base64Images(images) == SelectSeq(images, IsBase64)

\* An update that takes an empty referenceImages for the new list.
uploadedImageUrlsEmptyReplaces(entity, images, outcome, newUrls) ==
  IF Len(base64Images(images)) = 0 THEN existingUrls(images)
  ELSE IF outcome = "returned" THEN existingUrls(images) \o newUrls
  ELSE IF Len(existingUrls(images)) > 0 THEN existingUrls(images)
  ELSE entity.referenceImages

\* The referenceImages update stores: outcome says whether
\* uploadBase64Images was called ("none"), returned newUrls or threw.
uploadedImageUrls(entity, images, outcome, newUrls) ==
  IF Len(images) = 0 THEN entity.referenceImages
  ELSE IF Len(base64Images(images)) = 0 THEN existingUrls(images)
  ELSE IF outcome = "returned" THEN existingUrls(images) \o newUrls
  ELSE IF Len(existingUrls(images)) > 0 THEN existingUrls(images)
  ELSE entity.referenceImages

\* if (updateDto.x !== undefined) entity.x = updateDto.x, for the fields
\* of the model, and entity.referenceImages = uploadedImageUrls.
updatedEntity(entity, dto, urls) ==
  IF dto.owner = Undefined
  THEN [entity EXCEPT !.referenceImages = urls]
  ELSE [entity EXCEPT !.userId = dto.owner.userId, !.vendorId = dto.owner.vendorId,
                      !.venueId = dto.owner.venueId, !.referenceImages = urls]

\* An entity built with the DTO spread last: what the DTO carries wins.
createEntityDtoWins(dto, userId, urls) ==
  [ userId |-> IF dto.extras.userId = JsUndefined THEN String(userId)
               ELSE dto.extras.userId,
    vendorId |-> dto.vendorId, venueId |-> dto.venueId,
    status |-> IF dto.extras.status = "" THEN "pending" ELSE dto.extras.status,
    isDeleted |-> dto.extras.isDeleted = "true",
    referenceImages |-> urls ]

\* this.repo.create({ ...dto, userId: userIdString, referenceImages:
\* uploadedImageUrls, ..., status: 'pending', isDeleted: false }): the
\* properties written after the spread replace those of the DTO.
createEntity(dto, userId, urls) ==
  [ userId |-> String(userId), vendorId |-> dto.vendorId, venueId |-> dto.venueId,
    status |-> "pending", isDeleted |-> FALSE, referenceImages |-> urls ]

\* create(dto, userId) with no reference images, called for a user with
\* the userId of the JWT as a string or as an ObjectId: the document is
\* saved under a new id.
qCreate ==
  /\ \E id \in QIds :
       /\ qStore[id] = <<>>
       /\ \A j \in QIds : j < id => qStore[j] # <<>>
       /\ \E o \in Owners, x \in CreateExtras :
            \E userId \in {o.userId, ObjectIdOf(o.userId[2])} :
              LET dto == [vendorId |-> o.vendorId, venueId |-> o.venueId, extras |-> x]
              IN /\ qStore' = [qStore EXCEPT ![id] = <<createEntity(dto, userId, <<>>)>>]
                 /\ qLast' = [Last("create", id, userId, "ok", {}, 1) EXCEPT !.dto = x]
  /\ UNCHANGED <<qUpd, emVars, upVars, crVars, skVars, ccVars, sdVars>>

\* update(id, dto) up to its second await, for a dto of dtos: findOne
\* answers; when it found the quotation, new images start uploading, or
\* the save is on its way.
updateCall(dtos) ==
  /\ qUpd.pc = "idle"
  /\ \E id \in QIds, dto \in dtos :
       IF ~Found(qStore, id)
       THEN /\ qLast' = Last("update", id, JsUndefined, "NotFoundException", {}, 1)
            /\ UNCHANGED qUpd
       ELSE /\ UNCHANGED qLast
            /\ IF Len(base64Images(dto.referenceImages)) > 0
               THEN \E in \in UploadInputs :
                      /\ in.images = base64Images(dto.referenceImages)
                      /\ \E t \in UploadStart(in) :
                           qUpd' = [ pc |-> "upload", id |-> id, entity |-> qStore[id],
                                     dto |-> dto, up |-> t ]
               ELSE qUpd' = [ pc |-> "save", id |-> id, entity |-> qStore[id],
                              dto |-> dto, up |-> UpIdle ]
  /\ UNCHANGED <<qStore, emVars, upVars, crVars, skVars, ccVars, sdVars>>

\* update with any DTO.
update == updateCall(UpdateDtos(UpdateImageLists))

\* update with a DTO without referenceImages.
updateNoImages == updateCall(UpdateDtos({<<>>}))

\* The uploadBase64Images call of the update takes its next step.
updateUploads ==
  /\ qUpd.pc = "upload"
  /\ qUpd.up.pc # "done"
  /\ \E t \in UploadSteps(qUpd.up) : qUpd' = [qUpd EXCEPT !.up = t]
  /\ UNCHANGED <<qStore, qLast, emVars, upVars, crVars, skVars, ccVars, sdVars>>

\* update from the end of the upload, if there was one, on: the entity
\* read by findOne gets the fields of the DTO and its referenceImages,
\* and is saved.
updateSaves ==
  /\ \/ qUpd.pc = "save"
     \/ qUpd.pc = "upload" /\ qUpd.up.pc = "done"
  /\ LET e == qUpd.entity[1]
         imgs == qUpd.dto.referenceImages
         urls == IF qUpd.pc = "upload"
                 THEN uploadedImageUrls(e, imgs, "returned", qUpd.up.result)
                 ELSE uploadedImageUrls(e, imgs, "none", <<>>)
     IN qStore' = [qStore EXCEPT ![qUpd.id] = <<updatedEntity(e, qUpd.dto, urls)>>]
  /\ qLast' = [Last("update", qUpd.id, JsUndefined, "ok", {}, 2)
                 EXCEPT !.images = qUpd.dto.referenceImages]
  /\ qUpd' = UpdIdle
  /\ UNCHANGED <<emVars, upVars, crVars, skVars, ccVars, sdVars>>

\* findOne(id) as a call of its own.
findOne ==
  /\ \E id \in QIds :
       qLast' = Last("findOne", id, JsUndefined,
                     IF Found(qStore, id) THEN "ok" ELSE "NotFoundException", {}, 1)
  /\ UNCHANGED <<qStore, qUpd, emVars, upVars, crVars, skVars, ccVars, sdVars>>

\* updateStatus(id, status): findOne, then the status is set and the
\* entity saved, with no other call between the two.
updateStatus ==
  /\ \E id \in QIds, status \in Statuses :
       IF Found(qStore, id)
       THEN /\ qStore' = [qStore EXCEPT ![id] = <<[@[1] EXCEPT !.status = status]>>]
            /\ qLast' = Last("updateStatus", id, JsUndefined, "ok", {}, 2)
       ELSE /\ qLast' = Last("updateStatus", id, JsUndefined, "NotFoundException", {}, 1)
            /\ UNCHANGED qStore
  /\ UNCHANGED <<qUpd, emVars, upVars, crVars, skVars, ccVars, sdVars>>

\* remove(id): findOne, then isDeleted is set and the entity saved, with
\* no other call between the two.
remove ==
  /\ \E id \in QIds :
       IF Found(qStore, id)
       THEN /\ qStore' = [qStore EXCEPT ![id] = <<[@[1] EXCEPT !.isDeleted = TRUE]>>]
            /\ qLast' = Last("remove", id, JsUndefined, "ok", {}, 2)
       ELSE /\ qLast' = Last("remove", id, JsUndefined, "NotFoundException", {}, 1)
            /\ UNCHANGED qStore
  /\ UNCHANGED <<qUpd, emVars, upVars, crVars, skVars, ccVars, sdVars>>

\* A query that leaves the isDeleted condition out.
QueryIgnoresIsDeleted(store, field, value) ==
  {id \in QIds :
     /\ store[id] # <<>>
     /\ (field # "" => store[id][1][field] = value)}

\* repo.findAndCount({ where: { [field]: value, isDeleted: false } }):
\* the ids of the documents found; field "" stands for no condition but
\* isDeleted.
Query(store, field, value) ==
  {id \in QIds :
     /\ store[id] # <<>>
     /\ ~store[id][1].isDeleted
     /\ (field # "" => store[id][1][field] = value)}

\* findAllForAdmin()
findAllForAdmin ==
  /\ qLast' = Last("findAllForAdmin", 0, JsUndefined, "ok", Query(qStore, "", ""), 1)
  /\ UNCHANGED <<qStore, qUpd, emVars, upVars, crVars, skVars, ccVars, sdVars>>

\* The userId a controller passes on: the string or the ObjectId of a
\* user, an empty string, or nothing.
CallerIds ==
  UNION { {o.userId, ObjectIdOf(o.userId[2])} : o \in Owners } \cup {Str(""), JsUndefined}

\* A findAll that lists every user's quotations when it got no userId.
findAllPageWithoutUser(store, userId) ==
  IF Truthy(userId)
  THEN LET data == Query(store, "userId", String(userId))
       IN [data |-> data, queries |-> IF data = {} THEN 2 ELSE 1]
  ELSE [data |-> Query(store, "", ""), queries |-> 1]

\* The page of findAll and the number of repository calls behind it.
findAllPage(store, userId) ==
  IF Truthy(userId)
  THEN LET data == Query(store, "userId", String(userId))
       IN [data |-> data, queries |-> IF data = {} THEN 2 ELSE 1]
  ELSE [data |-> {}, queries |-> 0]

\* findAll(page, limit, userId): where.userId = String(userId); without
\* a userId the empty page is returned and nothing is queried; the query
\* that only feeds a log message when the page is empty is counted.
findAll ==
  /\ \E userId \in CallerIds :
       LET r == findAllPage(qStore, userId)
       IN qLast' = Last("findAll", 0, userId, "ok", r.data, r.queries)
  /\ UNCHANGED <<qStore, qUpd, emVars, upVars, crVars, skVars, ccVars, sdVars>>

\* findByVendor(vendorId)
findByVendor ==
  /\ \E vendorId \in {o.vendorId : o \in Owners} :
       qLast' = Last("findByVendor", 0, vendorId, "ok", Query(qStore, "vendorId", vendorId), 1)
  /\ UNCHANGED <<qStore, qUpd, emVars, upVars, crVars, skVars, ccVars, sdVars>>

\* findByVenue(venueId)
findByVenue ==
  /\ \E venueId \in {o.venueId : o \in Owners} :
       qLast' = Last("findByVenue", 0, venueId, "ok", Query(qStore, "venueId", venueId), 1)
  /\ UNCHANGED <<qStore, qUpd, emVars, upVars, crVars, skVars, ccVars, sdVars>>

\* One quotation, created without images and then updated.
UpdateNext ==
  \/ qStore[1] = <<>> /\ qCreate
  \/ update
  \/ updateUploads
  \/ updateSaves

\* The calls on the stored quotations, among them an update that leaves
\* the reference images alone.
StoreNext ==
  \/ qCreate
  \/ updateNoImages
  \/ updateSaves
  \/ findOne
  \/ updateStatus
  \/ remove
  \/ findAllForAdmin
  \/ findAll
  \/ findByVendor
  \/ findByVenue

(***************************************************************************)
(* QuotationRequestService.seedInitialData                                 *)
(***************************************************************************)

\* Number of names seeded per collection, and of calls that return, in
\* one run.
MaxSeedNames == 2
MaxSeedCalls == 3

eventTypesData ==
  << "Grand Ballroom", "Garden Paradise", "Rooftop Terrace", "Beach Resort",
     "Mountain Lodge", "City Convention Center" >>

photographyTypesData == << "Portrait", "Wedding", "Fashion", "Event", "Sports" >>

\* The first names of a list, MaxSeedNames of them at most.
SeedCut(list) ==
  SubSeq(list, 1, IF Len(list) < MaxSeedNames THEN Len(list) ELSE MaxSeedNames)

\* The two loops of seedInitialData as one list: the names of the first
\* collection, then those of the second.
SeedList ==
  LET ev == SeedCut(eventTypesData)
      ph == SeedCut(photographyTypesData)
  IN [n \in 1..Len(ev) |-> <<"EventType", ev[n]>>]
       \o [n \in 1..Len(ph) |-> <<"PhotographyType", ph[n]>>]

SeedKeys == {SeedList[n] : n \in 1..Len(SeedList)}

\* A seedInitialData call that is not running.
SeedIdle == [pc |-> "idle", i |-> 0]

\* A lookup that finds nothing.
findOneByNameMisses(repo, key) == FALSE

\* repo.findOne({ where: { name, isDeleted: false } }) found a record;
\* repo counts the records of a name that are not deleted.
findOneByName(repo, key) == repo[key] > 0

\* The loop goes on to the next name, or the call returns.
SeedAfter(i) ==
  IF i < Len(SeedList) THEN [pc |-> "find", i |-> i + 1] ELSE [pc |-> "done", i |-> 0]

\* No seedInitialData call is between its first findOne and its return.
SeedQuiet == \A c \in Callers : sdCalls[c].pc \in {"idle", "done"}

\* The collections before the first call: each name has no record yet or
\* one that is not deleted, left by an earlier run.
SeedGiven ==
  /\ sdCompleted = 0
  /\ \A c \in Callers : sdCalls[c] = SeedIdle
  /\ \A key \in SeedKeys : sdRepo[key] = 0
  /\ \E had \in (SUBSET SeedKeys) \ {{}} :
       sdRepo' = [key \in SeedKeys |-> IF key \in had THEN 1 ELSE 0]
  /\ UNCHANGED <<sdCalls, sdCompleted, emVars, upVars, crVars, skVars, ccVars, qVars>>

\* seedInitialData() is called: the findOne for the first name is
\* awaited.
seedInitialData(c) ==
  /\ sdCalls[c].pc \in {"idle", "done"}
  /\ sdCompleted + Cardinality({d \in Callers : sdCalls[d].pc \in {"find", "save"}})
       < MaxSeedCalls
  /\ sdCalls' = [sdCalls EXCEPT ![c] = [pc |-> "find", i |-> 1]]
  /\ UNCHANGED <<sdRepo, sdCompleted, emVars, upVars, crVars, skVars, ccVars, qVars>>

\* The awaited findOne answers: with a record the loop goes on, without
\* one the record is created and its save awaited.
SeedFindOneReturns(c) ==
  /\ sdCalls[c].pc = "find"
  /\ LET next == IF findOneByName(sdRepo, SeedList[sdCalls[c].i])
                 THEN SeedAfter(sdCalls[c].i)
                 ELSE [pc |-> "save", i |-> sdCalls[c].i]
     IN /\ sdCalls' = [sdCalls EXCEPT ![c] = next]
        /\ sdCompleted' = IF next.pc = "done" THEN sdCompleted + 1 ELSE sdCompleted
  /\ UNCHANGED <<sdRepo, emVars, upVars, crVars, skVars, ccVars, qVars>>

\* The awaited save has inserted the record; the loop goes on.
SeedSaveReturns(c) ==
  /\ sdCalls[c].pc = "save"
  /\ sdRepo' = [sdRepo EXCEPT ![SeedList[sdCalls[c].i]] = @ + 1]
  /\ LET next == SeedAfter(sdCalls[c].i)
     IN /\ sdCalls' = [sdCalls EXCEPT ![c] = next]
        /\ sdCompleted' = IF next.pc = "done" THEN sdCompleted + 1 ELSE sdCompleted
  /\ UNCHANGED <<emVars, upVars, crVars, skVars, ccVars, qVars>>

\* Calls of seedInitialData that start only when no other is running.
SeedSeqNext ==
  \/ SeedGiven
  \/ \E c \in Callers :
       \/ SeedQuiet /\ seedInitialData(c)
       \/ SeedFindOneReturns(c)
       \/ SeedSaveReturns(c)

\* Calls of seedInitialData that may overlap.
SeedNext ==
  \/ SeedGiven
  \/ \E c \in Callers :
       \/ seedInitialData(c)
       \/ SeedFindOneReturns(c)
       \/ SeedSaveReturns(c)

\* Both services after construction: no call in progress.
Init ==
  /\ emPc = "idle"
  /\ emCfg = [nodeEnv |-> "production", resendApiKey |-> FALSE, resendClient |-> FALSE,
              sendGridApiKey |-> FALSE, sendGridFrom |-> FALSE,
              smtpUser |-> FALSE, smtpPass |-> FALSE]
  /\ emI = 0
  /\ emAttempts = <<>>
  /\ emOutcomes = <<>>
  /\ emEnv = [console |-> TRUE, io |-> "ok"]
  /\ emResult = "none"
  /\ emRecords = <<>>
  /\ skRecords = <<>>
  /\ skCalls = <<>>
  /\ rndDraws = 0
  /\ ccKind = "none"
  /\ ccCfg = [nodeEnv |-> "production", resendApiKey |-> FALSE, resendClient |-> FALSE,
              sendGridApiKey |-> FALSE, sendGridFrom |-> FALSE,
              smtpUser |-> FALSE, smtpPass |-> FALSE, hasAwsConfig |-> FALSE]
  /\ ccEm = [c \in Callers |-> EmIdle]
  /\ ccUp = [c \in Callers |-> UpIdle]
  /\ qStore = [id \in QIds |-> <<>>]
  /\ qUpd = UpdIdle
  /\ qLast = Last("none", 0, JsUndefined, "none", {}, 0)
  /\ sdRepo = [key \in SeedKeys |-> 0]
  /\ sdCalls = [c \in Callers |-> SeedIdle]
  /\ sdCompleted = 0
  /\ upPc = "idle"
  /\ upIn = [images |-> <<>>, nodeEnv |-> "production", hasAwsConfig |-> FALSE, logThrows |-> {}]
  /\ upI = 0
  /\ upB = 0
  /\ upImageUrl = EmptyUrl
  /\ upSuccess = FALSE
  /\ upUrls = <<>>
  /\ upAttempts = <<>>
  /\ upCall = NoCall
  /\ upInFlight = {}
  /\ upTimers = {}
  /\ upDiscarded = [upload |-> 0, timer |-> 0]
  /\ upPauses = 0
  /\ upResult = "none"
  /\ crPc = "idle"
  /\ crDto = [referenceImages |-> <<>>]
  /\ crEnv = "ok"
  /\ crEntity = <<>>
  /\ crResult = "none"

\* One sendEmail call, from the call to its return.
EmailSpec == Init /\ [][EmailNext]_vars

\* The event loop runs every continuation that is ready: a settled promise
\* always resumes its awaiter.
FairEmailSpec == EmailSpec /\ WF_vars(EmailNext)

\* One uploadBase64Images call, with the background settlements it leaves.
UploadSpec == Init /\ [][UploadNext]_vars

\* One create call, with the uploadBase64Images call it makes.
CreateSpec == Init /\ [][CreateNext]_vars

\* Two calls of sendEmail, or two of uploadBase64Images, interleaved.
ConcSpec == Init /\ [][ConcNext]_vars

\* The updates of one quotation, with the uploads they make.
UpdateSpec == Init /\ [][UpdateNext]_vars

\* The calls of the API on the quotation collection.
StoreSpec == Init /\ [][StoreNext]_vars

\* seedInitialData called again and again, one call after the other.
SeedSeqSpec == Init /\ [][SeedSeqNext]_vars

\* seedInitialData called by two requests at a time.
SeedSpec == Init /\ [][SeedNext]_vars

\* Direct calls of WebhookEmailService, one after the other.
SinkSpec == Init /\ [][SinkNext]_vars

(***************************************************************************)
(* Properties of sendEmail                                                 *)
(***************************************************************************)

\* C1: sendEmail stops at the first strategy that reports success: a
\* strategy that returned true is the last one invoked, and the call has
\* returned true.
C1_StopsAtFirstSuccess ==
  \A k \in 1..Len(emOutcomes) :
    emOutcomes[k].ret = "true" =>
      /\ k = Len(emOutcomes)
      /\ Len(emAttempts) = k
      /\ emPc = "done"
      /\ emResult = "true"

\* A call that returned true at the third strategy, after two failures.
C1_Witness ==
  /\ emPc = "done"
  /\ emResult = "true"
  /\ Len(emAttempts) = 3
  /\ Len(emOutcomes) = 3
  /\ emOutcomes[3].ret = "true"

\* C2: the strategies are attempted in the configured order (Resend,
\* SendGrid API, Gmail SMTP, SMTP-only, Railway direct, Railway email,
\* webhook, console log), and strategy i+1 is not started before strategy i
\* has settled.
C2_ConfiguredOrder ==
  LET order == << "tryResend", "trySendGridAPI", "tryGmailSMTP", "trySmtpOnly",
                  "tryRailwayDirect", "tryRailwayEmail", "tryWebhook",
                  "tryConsoleLog" >>
  IN /\ Len(emAttempts) <= Len(order)
     /\ \A k \in 1..Len(emAttempts) : emAttempts[k] = order[k]
     /\ Len(emAttempts) <= Len(emOutcomes) + 1
     /\ emPc = "await" => Len(emAttempts) = Len(emOutcomes) + 1

\* All eight strategies were invoked, the last one still in flight.
C2_Witness ==
  /\ emPc = "await"
  /\ Len(emAttempts) = 8
  /\ Len(emOutcomes) = 7

\* C3: a strategy that throws or returns false is never fatal: the failure
\* of a strategy that is not the last comes with the invocation of the next
\* strategy of the list.
C3_FailureAdvances ==
  \A k \in 1..Len(emOutcomes) :
    (k < Len(strategies) /\ emOutcomes[k].ret \in {"false", "throw"}) =>
      /\ Len(emAttempts) >= k + 1
      /\ emAttempts[k + 1] = strategies[k + 1]

\* A walk where one strategy returned false, another threw, and a later
\* strategy was invoked after both.
C3_Witness ==
  /\ \E k \in 1..Len(emOutcomes) : emOutcomes[k].ret = "false" /\ k < Len(emAttempts)
  /\ \E k \in 1..Len(emOutcomes) : emOutcomes[k].ret = "throw" /\ k < Len(emAttempts)

\* C4: sendEmail never raises to its caller: whatever the strategies do
\* (return true, return false, throw) and whatever the configuration holds,
\* a finished call has resolved to a boolean and has not rejected.
C4_NeverRejects ==
  /\ emResult # "rejected"
  /\ emPc = "done" => emResult \in {"true", "false"}

\* A finished call during which a strategy threw.
C4_Witness ==
  /\ emPc = "done"
  /\ emResult \in {"true", "false"}
  /\ \E k \in 1..Len(emOutcomes) : emOutcomes[k].ret = "throw"

\* No strategy of the call delivered through a real provider.
RealProvidersFailed ==
  \A k \in 1..Len(emOutcomes) : emOutcomes[k].via # "provider"

\* C5: when every real email provider fails, sendEmail still ends in a
\* successful logging attempt and returns true; false is never returned.
C5_AsClaimed ==
  (emPc = "done" /\ RealProvidersFailed) =>
    /\ emResult = "true"
    /\ emOutcomes[Len(emOutcomes)].via = "log"

\* C6: when the Resend adapter is misconfigured, or its send returns an
\* error or throws, sendEmail goes on to attempt the SendGrid API strategy.
C6_AsClaimed ==
  (Len(emOutcomes) >= 1 /\ emOutcomes[1].via # "provider") =>
    /\ Len(emAttempts) >= 2
    /\ emAttempts[2] = "trySendGridAPI"

\* C7: sendEmail always eventually returns, also when a provider call
\* never resolves.
C7_AsClaimed == <>(emPc = "done")

(***************************************************************************)
(* Properties of uploadBase64Images                                        *)
(***************************************************************************)

\* The step in which the deadline of the awaited Supabase upload expires
\* before the upload has settled.
DeadlineExpires ==
  /\ upPc = "race"
  /\ Awaited \in upTimers
  /\ Awaited \notin upTimers'

\* C8: a Supabase upload that has not settled when its 30000 ms deadline
\* expires is a failed attempt for that bucket: no URL is taken from it, and
\* the next bucket of the list, if there is one, is attempted.
C8_TimeoutFailsAttempt ==
  [][ DeadlineExpires =>
        /\ upUrls' = upUrls
        /\ upImageUrl' = EmptyUrl
        /\ ~upSuccess'
        /\ Awaited[2] = "profiles" =>
              /\ upPc' = "race"
              /\ upAttempts' = Append(upAttempts, <<upI, "uploads">>) ]_vars

\* The upload to 'profiles' that would have returned a URL is still
\* running, its deadline has expired, and 'uploads' is being attempted.
C8_Witness ==
  /\ upPc = "race"
  /\ Awaited[2] = "uploads"
  /\ <<upI, "profiles">> \notin upTimers
  /\ [att |-> <<upI, "profiles">>, out |-> "url"] \in upInFlight
  /\ upUrls = <<>>

\* C9: every provider attempt, the AWS S3 fallback included, runs under the
\* timeout guard: while an attempt is awaited, its deadline timer is armed.
C9_AsClaimed ==
  upPc \in {"race", "awaitS3"} => Awaited \in upTimers

\* The step in which an upload that lost its race settles.
LateUploadStep ==
  \E rec \in upInFlight :
    /\ rec \notin upInFlight'
    /\ ~(upPc \in {"race", "awaitS3"} /\ rec.att = Awaited)

\* The step in which the timer of a race the upload won fires.
LateTimerStep ==
  \E att \in upTimers :
    /\ att \notin upTimers'
    /\ ~(upPc = "race" /\ att = Awaited)

\* C10: the loser of the uploadWithTimeout race never changes the result
\* being built: an upload that completes after its deadline adds no URL,
\* and a timer that fires after its upload succeeded removes none and fails
\* nothing.
C10_LoserDiscarded ==
  [][ (LateUploadStep \/ LateTimerStep) =>
        UNCHANGED <<upUrls, upResult, upImageUrl, upSuccess, upPc, upAttempts>> ]_vars

\* A finished call in which the 'profiles' upload lost its race and settled
\* afterwards, the 'uploads' upload won its race and its timer fired
\* afterwards, and the returned list holds the URL of 'uploads' alone.
C10_Witness ==
  /\ upPc = "done"
  /\ upDiscarded.upload >= 1
  /\ upDiscarded.timer >= 1
  /\ upInFlight = {}
  /\ upTimers = {}
  /\ upAttempts = <<<<1, "profiles">>, <<1, "uploads">>>>
  /\ upResult = <<UrlOf(<<1, "uploads">>)>>

\* The provider calls that are running and have not been given up: an
\* upload whose deadline has not expired, or an S3 upload.
LiveAttempts ==
  {rec \in upInFlight : rec.att \in upTimers \/ rec.att[2] = "s3"}

\* C11 (as stated): at most one provider upload of the call is running at
\* any time, also after an earlier attempt timed out.
C11_AsClaimed == Cardinality(upInFlight) <= 1

\* C11 (amended): at most one provider upload is awaited at any time; a new
\* attempt starts only after the earlier one settled or its deadline
\* expired, and an upload whose deadline expired may still be running.
C11_OneAwaitedAttempt ==
  /\ Cardinality(LiveAttempts) <= 1
  /\ \A rec \in LiveAttempts : upPc \in {"race", "awaitS3"} /\ rec.att = Awaited
  /\ upPc \in {"race", "awaitS3"} => \E rec \in upInFlight : rec.att = Awaited

\* The 'uploads' attempt is awaited while the 'profiles' upload of the same
\* image, given up at its deadline, is still running.
C11_Witness ==
  /\ upPc = "race"
  /\ Awaited = <<1, "uploads">>
  /\ Cardinality(upInFlight) = 2
  /\ Cardinality(LiveAttempts) = 1

\* The step in which the awaited upload hands a URL to the loop: it
\* settles with one while it is awaited and, under uploadWithTimeout,
\* before its deadline.
UploadSucceeds ==
  /\ upPc \in {"race", "awaitS3"}
  /\ [att |-> Awaited, out |-> "url"] \in upInFlight
  /\ [att |-> Awaited, out |-> "url"] \notin upInFlight'
  /\ upPc = "race" => Awaited \in upTimers'

PausedImages == {k \in 1..(Len(upIn.images) - 1) : upIn.images[k] = "valid"}

\* The images for which a second bucket was tried.
RetriedImages ==
  {k \in 1..Len(upIn.images) :
     \E n \in 1..Len(upAttempts) : upAttempts[n] = <<k, "uploads">>}

\* C14 as stated: a returned call has paused once after every image but
\* the last and once more for every image retried on a further bucket.
C14_AsClaimed ==
  upPc = "done" =>
    upPauses = Cardinality(PausedImages) + Cardinality(RetriedImages)

\* C14: the 500 ms pause separates images, not provider attempts: the
\* pauses completed are one for every well-formed image before the
\* current one that is not the last entry of the list, however many
\* buckets were tried for it.
C14_PausePerImage ==
  upPc # "idle" =>
    upPauses = Cardinality({k \in PausedImages : k < upI})

\* Two images, the first retried on 'uploads' after 'profiles' failed:
\* the call returned after one pause.
C14_Witness ==
  /\ upPc = "done"
  /\ upIn.images = <<"valid", "valid">>
  /\ 1 \in RetriedImages
  /\ upPauses = 1

(***************************************************************************)
(* Properties of the strategies of sendEmail                               *)
(***************************************************************************)

\* C15: whatever the configuration of the call, the strategy list ends
\* with tryConsoleLog and holds it nowhere else: it is invoked as the
\* last strategy only, and a walk that found no success ended on it.
C15_ConsoleLogLast ==
  /\ strategies[Len(strategies)] = "tryConsoleLog"
  /\ \A k \in 1..(Len(strategies) - 1) : strategies[k] # "tryConsoleLog"
  /\ \A n \in 1..Len(emAttempts) :
       emAttempts[n] = "tryConsoleLog" <=> n = Len(strategies)
  /\ (emPc = "done" /\ emResult = "false") =>
       emAttempts[Len(emAttempts)] = "tryConsoleLog"

\* In production with SendGrid configured every earlier strategy failed
\* and tryConsoleLog was invoked last.
C15_Witness ==
  /\ emPc = "done"
  /\ emCfg.nodeEnv = "production"
  /\ emCfg.sendGridApiKey /\ emCfg.sendGridFrom
  /\ Len(emAttempts) = Len(strategies)
  /\ emAttempts[Len(emAttempts)] = "tryConsoleLog"

\* C16: tryConsoleLog succeeds unconditionally: whenever it was invoked
\* and settled it resolved to true, also when console.log failed, and the
\* call then returned true.
C16_AsClaimed ==
  \A k \in 1..Len(emOutcomes) :
    emAttempts[k] = "tryConsoleLog" =>
      /\ emOutcomes[k].ret = "true"
      /\ emResult = "true"

\* C17 as stated: a real delivery is reported as true, so a call in which
\* no real provider delivered (logged only) hands its caller another
\* value.
C17_AsClaimed ==
  (emPc = "done" /\ RealProvidersFailed) => emResult # "true"

\* C17: sendEmail hands its caller a boolean that tells success from
\* failure only: a strategy that delivered through its provider and a
\* strategy that only logged the email both end the call with true, and
\* false means that no strategy did either.
C17_BooleanOutcome ==
  /\ \A k \in 1..Len(emOutcomes) :
       emOutcomes[k].via \in {"provider", "log"} =>
         emPc = "done" /\ emResult = "true"
  /\ emPc = "done" =>
       /\ emResult \in {"true", "false"}
       /\ emResult = "true" =>
            emOutcomes[Len(emOutcomes)].via \in {"provider", "log"}
       /\ emResult = "false" =>
            \A k \in 1..Len(emOutcomes) : emOutcomes[k].via = "none"

\* The four real providers failed, RailwayDirectEmailService logged the
\* email, and the call returned true.
C17_Witness ==
  /\ emPc = "done"
  /\ emResult = "true"
  /\ RealProvidersFailed
  /\ emAttempts[Len(emAttempts)] = "tryRailwayDirect"
  /\ emOutcomes[Len(emOutcomes)].via = "log"

\* C18 as stated: one invocation of tryGmailSMTP contacts at most one
\* SMTP configuration, and one invocation of the Resend adapter ends
\* without a fallback step of its own.
C18_AsClaimed ==
  \A k \in 1..Len(emOutcomes) :
    /\ emAttempts[k] = "tryGmailSMTP" => emOutcomes[k].contacts <= 1
    /\ emAttempts[k] = "tryResend" => emOutcomes[k].via # "log"

\* C18: an invocation makes at most one call to its provider, except that
\* tryGmailSMTP goes through its three transports in order until one
\* sends (it throws only with none or all three contacted), and that the
\* Resend adapter, whenever its provider did not deliver, ends with its
\* own logging fallback, whose result it reports.  The logging strategies
\* contact no provider.
C18_CallsPerInvocation ==
  \A k \in 1..Len(emOutcomes) :
    LET s == emAttempts[k]
        r == emOutcomes[k]
    IN /\ s = "tryGmailSMTP" =>
            /\ r.contacts \in 0..Len(GmailConfigs)
            /\ r.ret = "true" => r.contacts >= 1 /\ r.via = "provider"
            /\ r.ret # "true" => r.ret = "throw" /\ r.contacts \in {0, Len(GmailConfigs)}
       /\ s = "tryResend" =>
            /\ r.contacts <= 1
            /\ r.via # "provider" => (r.ret = "true" <=> r.via = "log")
            /\ r.ret \in {"true", "false"}
       /\ s = "trySendGridAPI" => r.contacts <= 1
       /\ s \in {"tryRailwayDirect", "tryRailwayEmail", "tryWebhook", "tryConsoleLog"} =>
            r.contacts = 0

\* tryGmailSMTP delivered through its second transport after the first
\* one failed.
C18_Witness ==
  \E k \in 1..Len(emOutcomes) :
    /\ emAttempts[k] = "tryGmailSMTP"
    /\ emOutcomes[k].contacts = 2
    /\ emOutcomes[k].ret = "true"

\* C19 as stated: no strategy method throws: every settled strategy
\* resolved to true or false.
C19_AsClaimed ==
  \A k \in 1..Len(emOutcomes) : emOutcomes[k].ret # "throw"

\* C19: a strategy reports failure by resolving to false or by throwing,
\* according to its kind, and no throw gets past sendEmail: tryResend,
\* tryRailwayDirect, tryRailwayEmail and tryWebhook resolve on every
\* path; trySendGridAPI, tryGmailSMTP and tryConsoleLog never resolve to
\* false but throw; after a throw the walk goes on to the next strategy,
\* or returns false after the last.
C19_ThrowsStopAtSendEmail ==
  \A k \in 1..Len(emOutcomes) :
    LET s == emAttempts[k]
        r == emOutcomes[k]
    IN /\ s \in {"tryResend", "tryRailwayDirect", "tryRailwayEmail", "tryWebhook"} =>
            r.ret \in {"true", "false"}
       /\ s \in {"trySendGridAPI", "tryGmailSMTP", "tryConsoleLog"} =>
            r.ret \in {"true", "throw"}
       /\ r.ret = "throw" =>
            IF k < Len(strategies)
            THEN Len(emAttempts) > k /\ emAttempts[k + 1] = strategies[k + 1]
            ELSE emPc = "done" /\ emResult = "false"

\* trySendGridAPI and tryGmailSMTP both threw and trySmtpOnly was invoked
\* after them.
C19_Witness ==
  /\ Len(emOutcomes) >= 3
  /\ emOutcomes[2].ret = "throw"
  /\ emOutcomes[3].ret = "throw"
  /\ Len(emAttempts) >= 4
  /\ emAttempts[4] = "trySmtpOnly"

\* The configuration lacks what the strategy needs.
Misconfigured(s) ==
  \/ s = "trySendGridAPI" /\ (~emCfg.sendGridApiKey \/ ~emCfg.sendGridFrom)
  \/ s = "tryGmailSMTP" /\ (~emCfg.smtpUser \/ ~emCfg.smtpPass)

\* C20: a misconfigured trySendGridAPI or tryGmailSMTP fails at once and
\* contacts nobody: it never waits for a provider, and once settled it
\* has thrown with no request sent and no transport contacted.
C20_MisconfiguredFailsFast ==
  /\ (emPc = "await" /\ Misconfigured(strategies[emI])) =>
        ~Hangs(strategies[emI], emCfg, emEnv)
  /\ \A k \in 1..Len(emOutcomes) :
       Misconfigured(emAttempts[k]) =>
         /\ emOutcomes[k].contacts = 0
         /\ emOutcomes[k].ret = "throw"

\* With neither SendGrid nor SMTP credentials, trySendGridAPI and
\* tryGmailSMTP both failed without a contact, and trySmtpOnly, invoked
\* next, delivered.
C20_Witness ==
  /\ ~emCfg.sendGridApiKey
  /\ ~emCfg.smtpUser
  /\ Len(emOutcomes) >= 4
  /\ emOutcomes[2] = Res("throw", 0, "none")
  /\ emOutcomes[3] = Res("throw", 0, "none")
  /\ emOutcomes[4].ret = "true"

(***************************************************************************)
(* Properties of the ids of the logging services                           *)
(***************************************************************************)

\* The strategies of the call that built an emailData with an id.
IdBuilders ==
  {k \in 1..Len(emOutcomes) : ServiceOf(emAttempts[k], emOutcomes[k]) # ""}

\* C21 as stated: one id is generated for the call, and the records the
\* logging services printed for it all carry the same id.
C21_AsClaimed ==
  /\ Cardinality(IdBuilders) <= 1
  /\ \A m, n \in 1..Len(emRecords) : emRecords[m].id = emRecords[n].id

\* C21: every logging service builds an id of its own at each invocation,
\* under its own prefix and from a fresh Math.random value: as many ids
\* are generated as logging services were invoked, and two records of
\* one call never carry the same id.
C21_IdPerService ==
  /\ rndDraws = Cardinality(IdBuilders)
  /\ \A n \in 1..Len(emRecords) :
       emRecords[n].id[1] = IdPrefix(emRecords[n].service)
  /\ \A m, n \in 1..Len(emRecords) :
       m # n => /\ emRecords[m].id # emRecords[n].id
                /\ emRecords[m].service # emRecords[n].service

\* RailwayDirectEmailService printed its record and then failed, and
\* RailwayEmailService printed a second record for the same call.
C21_Witness ==
  /\ Len(emRecords) = 2
  /\ emRecords[1].service = "RAILWAY_DIRECT"
  /\ emRecords[2].service = "RAILWAY_WEBHOOK"
  /\ emPc = "done"

\* The requests of the direct calls that returned true, in call order.
PrintedRequests ==
  LET ok == SelectSeq(skCalls, LAMBDA c : c.ret = "true")
  IN [n \in 1..Len(ok) |-> ok[n].req]

EmailAlone(e, cfg) ==
  CASE e.pc = "idle"  -> {EmailStart(env) : env \in EnvOf(strategies[1])}
    [] e.pc = "await" ->
         {EmailResume(e, e.i, cfg, env) :
            env \in EnvOf(strategies[IF e.i < Len(strategies) THEN e.i + 1 ELSE e.i])}
    [] OTHER -> {}

\* The steps an uploadBase64Images call with locals s can take when it
\* runs alone.
UploadAlone(s, cfg) ==
  IF s.pc = "idle"
  THEN UNION {UploadStart(in) : in \in {x \in ConcUploadInputs :
                                          /\ x.nodeEnv = cfg.nodeEnv
                                          /\ x.hasAwsConfig = cfg.hasAwsConfig}}
  ELSE UploadSteps(s)

Tries(att) ==
  /\ Len(upAttempts') = Len(upAttempts) + 1
  /\ upAttempts'[Len(upAttempts')] = att

\* The last attempt made so far, <<0, "">> before the first.
LastAttempt == IF upAttempts = <<>> THEN <<0, "">> ELSE upAttempts[Len(upAttempts)]

C26_AsClaimed == upPc = "done" => upPauses = Len(upIn.images) - 1

\* C26: the 500 ms pause follows every image that reached the upload
\* code and is not the last entry of the list, and nothing else: a pause
\* is taken one at a time, after a well-formed image that is not last,
\* also when its processing threw; the loop leaves such an image only
\* through the pause; and a returned call has paused once for each of
\* them, so N-1 times when all N images are well formed and fewer when
\* an entry before the last is empty or malformed.
C26_PauseAfterNonLast ==
  /\ [][ /\ upPauses' # upPauses =>
             /\ upPauses' = upPauses + 1
             /\ upPc = "delay"
             /\ upI \in PausedImages
         /\ (upPc \notin {"idle", "delay"} /\ upI \in PausedImages /\ upI' # upI)
              => (upPc' = "delay" /\ upI' = upI)
         /\ (upPc' = "delay" /\ upPc # "delay") => upI' \in PausedImages' ]_vars
  /\ [](upPc = "done" => upPauses = Cardinality(PausedImages))

\* Two well-formed images, the first of which threw while it was
\* processed: the call paused once and returned the URL of the second.
C26_Witness ==
  /\ upPc = "done"
  /\ upIn.images = <<"valid", "valid">>
  /\ upIn.logThrows = {1}
  /\ upPauses = 1
  /\ Len(upResult) = 1

\* The entries of the list that are empty or that the regular expression
\* rejects.
SkippedImages == {k \in 1..Len(upIn.images) : upIn.images[k] # "valid"}

\* C27: an empty or malformed entry is passed over: no provider is ever
\* tried for it, the call never waits at it, neither for a provider nor
\* for the pause, and the well-formed entries after it are still
\* uploaded: when the call has returned, each of them whose processing
\* did not throw has had its 'profiles' attempt.
C27_MalformedSkipped ==
  /\ \A n \in 1..Len(upAttempts) : upAttempts[n][1] \notin SkippedImages
  /\ upPc \in {"race", "awaitS3", "delay"} => upI \notin SkippedImages
  /\ upPc = "done" =>
       \A k \in 1..Len(upIn.images) :
         (k \notin SkippedImages /\ k \notin upIn.logThrows
            /\ \E j \in SkippedImages : j < k)
           => \E n \in 1..Len(upAttempts) : upAttempts[n] = <<k, "profiles">>

\* A malformed entry followed by a well-formed image: the call returned
\* the URL of the second after one attempt.
C27_Witness ==
  /\ upPc = "done"
  /\ upIn.images = <<"invalid", "valid">>
  /\ upAttempts = << <<2, "profiles">> >>
  /\ upResult = <<UrlOf(<<2, "profiles">>)>>
  /\ upPauses = 0

\* The step in which the awaited ResendEmailService.sendEmail returns.
ResendReturns ==
  /\ emPc = "await"
  /\ strategies[emI] = "tryResend"
  /\ Len(emOutcomes') = Len(emOutcomes) + 1

\* C28: ResendEmailService.sendEmail returns true whenever console
\* logging works during the call: without an API key or a client, with
\* an error returned by the Resend API and with a send that throws, the
\* call ends in logEmailFallback and reports its true; the outcome is
\* false only when console logging throws, and the call never rejects.
C28_ResendTrueUnlessConsoleThrows ==
  [][ ResendReturns =>
        LET r == emOutcomes'[Len(emOutcomes')]
            noClient == ~emCfg.resendApiKey \/ ~emCfg.resendClient
        IN /\ r.ret \in {"true", "false"}
           /\ r.ret = "true" <=> emEnv.console
           /\ (emEnv.console /\ (noClient \/ emEnv.io \in {"error", "throw"}))
                => (r.via = "log" /\ r.contacts = IF noClient THEN 0 ELSE 1) ]_vars

\* The Resend send failed and the call still returned true, from its
\* logging fallback.
C28_Witness ==
  \E k \in 1..Len(emOutcomes) :
    /\ emAttempts[k] = "tryResend"
    /\ emOutcomes[k] = Res("true", 1, "log")

(***************************************************************************)
(* Properties of update                                                    *)
(***************************************************************************)

\* C24: update keeps the existing images if upload fails: when the update
\* supplied only new base64 images and every one of their uploads failed,
\* the saved entity has the referenceImages that were stored before.
C24_AsClaimed ==
  [][ ( /\ updateSaves
        /\ qUpd.pc = "upload"
        /\ Len(existingUrls(qUpd.dto.referenceImages)) = 0
        /\ \A k \in DOMAIN qUpd.dto.referenceImages :
             qUpd.dto.referenceImages[k] = "valid"
        /\ qUpd.up.result = <<>> )
      => qStore'[qUpd.id][1].referenceImages = qStore[qUpd.id][1].referenceImages ]_vars

\* The step in which an update that brought no data:image entry saves.
UpdateSavesWithoutNewImage ==
  /\ updateSaves
  /\ Len(base64Images(qUpd.dto.referenceImages)) = 0

\* C33: an update without referenceImages, or with an empty list, saves
\* the referenceImages that were stored; an update whose referenceImages
\* are URLs only saves exactly these URLs, in their order; and neither
\* has called uploadBase64Images.
C33_ReferenceImagesFrame ==
  [][ UpdateSavesWithoutNewImage =>
        LET given == qUpd.dto.referenceImages
            saved == qStore'[qUpd.id][1].referenceImages
        IN /\ Len(given) = 0 => saved = qStore[qUpd.id][1].referenceImages
           /\ Len(given) > 0 =>
                /\ Len(saved) = Len(given)
                /\ \A n \in 1..Len(given) : saved[n] = KeptUrl(given[n])
           /\ qUpd.pc = "save"
           /\ qUpd.up = UpIdle ]_vars

\* An update without referenceImages has left two stored URLs as they
\* were.
C33_Witness ==
  /\ qLast.op = "update"
  /\ qLast.result = "ok"
  /\ qLast.images = <<>>
  /\ qUpd.pc = "idle"
  /\ qStore[1] # <<>>
  /\ qStore[1][1].referenceImages = <<KeptUrl("url2"), KeptUrl("url")>>

(***************************************************************************)
(* Properties of the stored quotations                                     *)
(***************************************************************************)

\* The quotations that are stored with isDeleted = true.
Deleted == {id \in QIds : qStore[id] # <<>> /\ qStore[id][1].isDeleted}

\* C29: deletion is permanent: from remove(id) on the document stays as
\* it is, isDeleted = true included, and a findOne, update, updateStatus
\* or remove that returns for that id has thrown NotFoundException.
C29_AsClaimed ==
  [][ \A id \in Deleted :
        /\ qStore'[id] = qStore[id]
        /\ (qLast' # qLast /\ qLast'.id = id
               /\ qLast'.op \in {"findOne", "update", "updateStatus", "remove"})
             => qLast'.result = "NotFoundException" ]_vars

Listings == {"findAllForAdmin", "findAll", "findByVendor", "findByVenue"}

\* The step in which a listing hands its page to the caller, or a step
\* after it that leaves the collection alone.
ListingReturned ==
  /\ qLast'.op \in Listings
  /\ qStore' = qStore

\* C30: whatever create, update, updateStatus and remove did before, a
\* listing returns stored quotations only, none of them with isDeleted
\* = true, and each with the userId, vendorId or venueId asked for.
C30_ListingsHideDeleted ==
  [][ ListingReturned =>
        \A id \in qLast'.data :
          /\ qStore[id] # <<>>
          /\ ~qStore[id][1].isDeleted
          /\ qLast'.op = "findAll" => qStore[id][1].userId = String(qLast'.arg)
          /\ qLast'.op = "findByVendor" => qStore[id][1].vendorId = qLast'.arg
          /\ qLast'.op = "findByVenue" => qStore[id][1].venueId = qLast'.arg ]_vars

\* Of two quotations the first was removed: the admin listing returned
\* the second only.
C30_Witness ==
  /\ qLast.op = "findAllForAdmin"
  /\ qLast.data = {2}
  /\ 1 \in Deleted

\* The step in which findAll hands its page to the caller, or a step
\* after it that leaves the collection alone.
FindAllReturned ==
  /\ qLast'.op = "findAll"
  /\ qStore' = qStore

\* C31: findAll always filters by the caller's user: every quotation of
\* its page is stored with userId equal to String(userId) of the call,
\* and a call without a userId returns the empty page and has made no
\* repository call, while a call with one has made at least one.
C31_FindAllFiltersByUser ==
  [][ FindAllReturned =>
        /\ \A id \in qLast'.data :
             /\ qStore[id] # <<>>
             /\ qStore[id][1].userId = String(qLast'.arg)
        /\ ~Truthy(qLast'.arg) => (qLast'.data = {} /\ qLast'.queries = 0)
        /\ Truthy(qLast'.arg) => qLast'.queries >= 1 ]_vars

\* Called with the ObjectId of user u1, findAll returned the first
\* quotation only although the second, of user u2, is stored and not
\* deleted.
C31_Witness ==
  /\ qLast.op = "findAll"
  /\ qLast.arg = ObjectIdOf("u1")
  /\ qLast.data = {1}
  /\ Found(qStore, 2)
  /\ qStore[2][1].userId = Str("u2")

\* The step in which create saves a quotation.
CreateSaves ==
  /\ qLast'.op = "create"
  /\ qStore[qLast'.id] = <<>>
  /\ qStore'[qLast'.id] # <<>>

\* C32: whatever the request body carries for status, isDeleted or
\* userId, the quotation create saves has status 'pending', isDeleted
\* false and the userId argument in its string form; and create saves
\* one document and touches no other.
C32_CreateForcesFields ==
  [][ (qLast'.op = "create" /\ qLast' # qLast) =>
        /\ CreateSaves
        /\ \A j \in QIds : j # qLast'.id => qStore'[j] = qStore[j]
        /\ LET saved == qStore'[qLast'.id][1]
           IN /\ saved.status = "pending"
              /\ ~saved.isDeleted
              /\ saved.userId = String(qLast'.arg)
              /\ saved.userId[1] = "string" ]_vars

\* create was called for user u1, with the userId as an ObjectId and a
\* body that carries status 'quoted', isDeleted true and the userId of
\* u2: the quotation is stored as pending, not deleted, for "u1".
C32_Witness ==
  /\ qLast.op = "create"
  /\ qLast.arg = ObjectIdOf("u1")
  /\ qLast.dto = [status |-> "quoted", isDeleted |-> "true", userId |-> Str("u2")]
  /\ qStore[qLast.id] # <<>>
  /\ qStore[qLast.id][1].status = "pending"
  /\ ~qStore[qLast.id][1].isDeleted
  /\ qStore[qLast.id][1].userId = Str("u1")

(***************************************************************************)
(* Properties of seedInitialData                                           *)
(***************************************************************************)

\* C34: seedInitialData is idempotent when its calls run one after the
\* other: once a call has returned and no call is running, every seeded
\* name has exactly one record that is not deleted, and from the first
\* return on no step of a later call adds a record.
C34_SeedIdempotent ==
  /\ [][ sdCompleted >= 1 => sdRepo' = sdRepo ]_vars
  /\ []((sdCompleted >= 1 /\ SeedQuiet) => \A key \in SeedKeys : sdRepo[key] = 1)

\* Two calls have returned, one after the other, and every name has one
\* record.
C34_Witness ==
  /\ sdCompleted >= 2
  /\ SeedQuiet
  /\ \A key \in SeedKeys : sdRepo[key] = 1

\* C35: whatever the interleaving of two overlapping calls, no seeded
\* name has more than one record that is not deleted once both calls
\* have returned.
C35_AsClaimed ==
  (\A c \in Callers : sdCalls[c].pc = "done") => \A key \in SeedKeys : sdRepo[key] <= 1

(***************************************************************************)
(* Properties of create                                                    *)
(***************************************************************************)

\* C12: create is not failed by image-upload degradation: whatever the
\* uploads did, once uploadBase64Images is over create saves the quotation
\* with the URLs that did upload (none, if every upload failed) and
\* returns it; it throws only when its own logging or repo.save throws.
C12_CreateSurvivesUploadFailure ==
  crPc = "done" =>
    /\ crEnv = "ok" =>
          /\ crResult = "returned"
          /\ crEntity = << [referenceImages |-> IF Len(crDto.referenceImages) > 0
                                                THEN upResult ELSE <<>>,
                            status |-> "pending", isDeleted |-> FALSE] >>
    /\ crResult = "threw" => crEnv # "ok"

\* create returned the saved quotation with no reference image after the
\* upload of its one image failed on both buckets and on S3.
C12_Witness ==
  /\ crPc = "done"
  /\ crResult = "returned"
  /\ crDto.referenceImages = <<"valid">>
  /\ upAttempts = <<<<1, "profiles">>, <<1, "uploads">>, <<1, "s3">>>>
  /\ crEntity # <<>>
  /\ crEntity[1].referenceImages = <<>>

=============================================================================
